---- MODULE Spec2Model ----
(***************************************************************************)
(* HistoryBuffer (src/src/lib.rs): a circular byte buffer addressed by an  *)
(* ever-growing logical offset.                                            *)
(*                                                                         *)
(* Rust vectors and slices are modelled as functions with domain 0..n-1,   *)
(* so that indices read as in the source.  usize arithmetic keeps a width  *)
(* fixed by the target (usize_max): `+` and `-` report overflow, which     *)
(* panics in a build with overflow checks (debug) and wraps in a build     *)
(* without (release).                                                      *)
(* The constructor's constants (1 << 23, 1 << 30) are kept at their real   *)
(* values.                                                                 *)
(***************************************************************************)
EXTENDS Integers, Sequences, FiniteSets, TLC

\* ---- bounds of the model ------------------------------------------------
\* width of usize in the model
UsizeBits == 3
\* add is not called once it would push next_running past this
MaxRunning == 7
\* longest slice handed to add
MaxData == 5
\* bytes are 0..MaxByte
MaxByte == 1
\* largest min_buf_size handed to new for the modelled buffer
MaxMinBuf == 3
\* new's size computation is also probed on 0..MaxProbe
MaxProbe == 70

Min(a, b) == IF a <= b THEN a ELSE b
Max(a, b) == IF a >= b THEN a ELSE b

VARIABLES
    buf,              \* HistoryBuffer.buf
    len,              \* HistoryBuffer.len
    mask,             \* HistoryBuffer.mask
    next_running,     \* HistoryBuffer.next_running
    usize_max,        \* the target: usize::MAX
    overflow_checks,  \* the build: TRUE panics on arithmetic overflow, FALSE wraps
    panicked,         \* a mutating call has panicked
    hist,             \* logical offset |-> byte appended there (most recent offsets)
    last,             \* the last recorded call: its name; n is min_buf_size of new, data.len() of add
    probe,            \* last probe of new's size computation
    twin              \* a second HistoryBuffer, for comparing two buffers

vars == <<buf, len, mask, next_running, usize_max, overflow_checks, panicked, hist, last, probe, twin>>

UsizeMax == 2^UsizeBits - 1
Usize == 0..usize_max
Byte == 0..MaxByte

\* add is called only while the write cursor stays within this
CursorBound == Min(MaxRunning, usize_max)

\* ---- usize arithmetic ---------------------------------------------------
UAdd(a, b) == [val |-> (a + b) % (usize_max + 1), ovf |-> a + b > usize_max]
USub(a, b) == [val |-> (a - b) % (usize_max + 1), ovf |-> a < b]
saturating_sub(a, b) == IF a >= b THEN a - b ELSE 0

RECURSIVE BitAnd(_, _)
BitAnd(a, b) ==
    IF a = 0 \/ b = 0 THEN 0
    ELSE (a % 2) * (b % 2) + 2 * BitAnd(a \div 2, b \div 2)

\* ---- vectors and slices -------------------------------------------------
VecLen(v) == Cardinality(DOMAIN v)
Zeros(n) == [i \in 0..(n - 1) |-> 0]
Vecs(n) == [0..(n - 1) -> Byte]

\* x[lo..hi] is a valid range of a vector of length n
RangeOk(lo, hi, n) == lo <= hi /\ hi <= n

\* dst[dlo..dhi].copy_from_slice(&src[slo..shi]): panics on a bad range or on
\* slices of different lengths
CopyPanics(dst, dlo, dhi, src, slo, shi) ==
    \/ ~RangeOk(dlo, dhi, VecLen(dst))
    \/ ~RangeOk(slo, shi, VecLen(src))
    \/ dhi - dlo # shi - slo

CopyFromSlice(dst, dlo, dhi, src, slo, shi) ==
    [i \in DOMAIN dst |->
        IF dlo <= i /\ i < dhi THEN src[slo + (i - dlo)] ELSE dst[i]]

\* ---- Option<u8> ---------------------------------------------------------
None == [some |-> FALSE]
Some(b) == [some |-> TRUE, val |-> b]

\* ---- outcome of a call: a return value or a panic -----------------------
Ok(x) == [panic |-> FALSE, ret |-> x]
Panic == [panic |-> TRUE]

\* ---- construction -------------------------------------------------------
PowerLimit == 2^30
ClampLo == 2
ClampHi == 2^23

RECURSIVE npt_loop(_, _)
npt_loop(power, n) ==
    IF power < n /\ power < PowerLimit THEN npt_loop(2 * power, n) ELSE power

\* mutant: the power is doubled once more after the loop
next_power_of_two_twice(n) == 2 * npt_loop(1, n)

next_power_of_two(n) == npt_loop(1, n)

clamp(x, lo, hi) == IF x < lo THEN lo ELSE IF x > hi THEN hi ELSE x

power_two_size(min_buf_size) == clamp(next_power_of_two(min_buf_size), ClampLo, ClampHi)

new(min_buf_size) ==
    [buf |-> Zeros(power_two_size(min_buf_size)),
     mask |-> power_two_size(min_buf_size) - 1,
     len |-> 0,
     next_running |-> 0]

\* no second buffer
NoTwin == [side |-> "none"]

Init ==
    \E min_buf_size \in 0..MaxMinBuf :
        /\ buf = new(min_buf_size).buf
        /\ mask = new(min_buf_size).mask
        /\ len = new(min_buf_size).len
        /\ next_running = new(min_buf_size).next_running
        /\ usize_max = UsizeMax
        /\ overflow_checks \in BOOLEAN
        /\ panicked = FALSE
        /\ hist = <<>>
        /\ last = [op |-> "new", n |-> min_buf_size]
        /\ probe = [n |-> min_buf_size, size |-> power_two_size(min_buf_size)]
        /\ twin = NoTwin

\* ---- add ----------------------------------------------------------------
\* the outcome of a usize `+` or `-`: the wrapped value, or a panic when the
\* build checks overflow
Arith(r) == IF r.ovf /\ overflow_checks THEN Panic ELSE Ok(r.val)

\* mutant: the retained length is not capped at the capacity
add_len_nocap(ln, n, buf_size) == ln + n

\* mutant: every add makes the whole storage readable again
add_len_tocap(ln, n, buf_size) == buf_size

add_len(ln, n, buf_size) == Min(ln + n, buf_size)
\* mutant: the write starts data.len() back even when data is longer than buf
add_inndx_nomin(nr, n, buf_size, msk) == BitAnd(nr - n, msk)

add_inndx(nr, n, buf_size, msk) == BitAnd(nr - Min(n, buf_size), msk)
add_outdx(nr, msk) == BitAnd(nr, msk)

\* data[(data.len() - num)..wrap] starts here
add_tail_start(n, num) == USub(n, num)

\* ... and ends here, where the part written at the front of buf begins
\* mutant: the split point is taken from the start of data
add_wrap_fromstart(n, outdx) == outdx

add_wrap(n, outdx) == saturating_sub(n, outdx)

\* the writes of add's two branches: Ok(buf') or Panic
add_copy(b, data, inndx, outdx) ==
    LET buf_size == VecLen(b)
        n == VecLen(data)
    IN  IF outdx > inndx
        THEN LET num == saturating_sub(outdx, inndx)
             IN  IF CopyPanics(b, inndx, outdx, data, 0, num)
                 THEN Panic
                 ELSE Ok(CopyFromSlice(b, inndx, outdx, data, 0, num))
        ELSE LET end == Arith(UAdd(outdx, buf_size))
             IN  IF end.panic THEN Panic
                 ELSE LET num == saturating_sub(end.ret, inndx)
                          wrap == add_wrap(n, outdx)
                          from == Arith(add_tail_start(n, num))
                      IN  IF from.panic THEN Panic
                          ELSE IF CopyPanics(b, inndx, buf_size, data, from.ret, wrap)
                          THEN Panic
                          ELSE LET b1 == CopyFromSlice(b, inndx, buf_size, data, from.ret, wrap)
                               IN  IF CopyPanics(b1, 0, outdx, data, wrap, n)
                                   THEN Panic
                                   ELSE Ok(CopyFromSlice(b1, 0, outdx, data, wrap, n))

\* add's arithmetic before the copies overflows
add_overflows(nr, ln, n, buf_size) ==
    UAdd(ln, n).ovf \/ USub(nr, Min(n, buf_size)).ovf

Add(data) ==
    /\ ~panicked
    /\ \E n \in {VecLen(data)} :
        /\ next_running + n <= usize_max
        /\ IF n = 0
           THEN UNCHANGED <<buf, len, next_running, panicked, hist>>
           ELSE \E buf_size \in {VecLen(buf)} :
                \E nr \in {next_running + n} :
                \E w \in {add_copy(buf, data, add_inndx(nr, n, buf_size, mask), add_outdx(nr, mask))} :
                    /\ next_running' = nr
                    /\ len' = add_len(len, n, buf_size)
                    /\ panicked' = (w.panic \/ (overflow_checks /\ add_overflows(nr, len, n, buf_size)))
                    /\ buf' = IF w.panic THEN buf ELSE w.ret
                    /\ hist' = [i \in Max(0, nr - buf_size)..(nr - 1) |->
                                   IF i < next_running THEN hist[i] ELSE data[i - next_running]]
    /\ UNCHANGED <<mask, usize_max, overflow_checks, probe>>

\* ---- clear, clear_at ----------------------------------------------------
Clear ==
    /\ ~panicked
    /\ len' = 0
    /\ UNCHANGED <<buf, mask, next_running, usize_max, overflow_checks, panicked, hist, probe>>

\* mutant: the new length is not capped at the old one
clear_at_len_nomin(nr, ln, new_start_index) == saturating_sub(nr, new_start_index)

clear_at_len(nr, ln, new_start_index) == Min(saturating_sub(nr, new_start_index), ln)

ClearAt(new_start_index) ==
    /\ ~panicked
    /\ len' = clear_at_len(next_running, len, new_start_index)
    /\ UNCHANGED <<buf, mask, next_running, usize_max, overflow_checks, panicked, hist, probe>>

\* ---- reads (&self): each yields Ok(value) or Panic ----------------------
\* v[i]: panics out of bounds
Index(v, i) == IF i \in DOMAIN v THEN Ok(v[i]) ELSE Panic

get(index) ==
    LET lo == Arith(USub(next_running, len))
    IN  IF lo.panic THEN Panic
        ELSE IF index >= lo.ret /\ index < next_running
             THEN LET b == Index(buf, BitAnd(index, mask))
                  IN  IF b.panic THEN Panic ELSE Ok(Some(b.ret))
             ELSE Ok(None)

get_index == Arith(USub(next_running, len))

\* mutant: the empty buffer is not special-cased
get_last_index_nomax == Ok(saturating_sub(next_running, 1))

get_last_index ==
    Ok(Max(saturating_sub(next_running, 1), saturating_sub(next_running, len)))

get_len == Ok(len)

\* the two branches of get_vec_and_index that fill v
gvi_copy(v, num, inndx, outdx) ==
    LET buf_size == VecLen(buf)
    IN  IF outdx > inndx
        THEN IF CopyPanics(v, 0, num, buf, inndx, outdx)
             THEN Panic
             ELSE Ok(CopyFromSlice(v, 0, num, buf, inndx, outdx))
        ELSE LET head == USub(buf_size, inndx)
             IN  IF \/ head.ovf /\ overflow_checks
                    \/ CopyPanics(v, 0, head.val, buf, inndx, buf_size)
                 THEN Panic
                 ELSE LET v1 == CopyFromSlice(v, 0, head.val, buf, inndx, buf_size)
                      IN  IF CopyPanics(v1, head.val, num, buf, 0, outdx)
                          THEN Panic
                          ELSE Ok(CopyFromSlice(v1, head.val, num, buf, 0, outdx))

\* mutant: the end of the request is not limited by max_len
gvi_out_nolimit(start_index, max_len) == [val |-> usize_max, ovf |-> FALSE]

gvi_out(start_index, max_len) == UAdd(start_index, max_len)
\* mutant: the start is not clipped to the oldest retained offset
gvi_inn_noclip(start_index, lo, out) == Min(start_index, out)

gvi_inn(start_index, lo, out) == Min(Max(start_index, lo), out)

get_vec_and_index(start_index, max_len) ==
    LET sum == Arith(gvi_out(start_index, max_len))
        lo == Arith(USub(next_running, len))
    IN  IF sum.panic \/ lo.panic THEN Panic
        ELSE LET out == Min(sum.ret, next_running)
                 inn == gvi_inn(start_index, lo.ret, out)
                 inndx == BitAnd(inn, mask)
                 outdx == BitAnd(out, mask)
                 num == saturating_sub(out, inn)
             IN  IF num = 0 THEN Ok([v |-> Zeros(0), idx |-> 0])
                 ELSE LET w == gvi_copy(Zeros(num), num, inndx, outdx)
                      IN  IF w.panic THEN Panic
                          ELSE Ok([v |-> w.ret, idx |-> inn])

get_vec(start_index, max_len) ==
    LET r == get_vec_and_index(start_index, max_len)
    IN  IF r.panic THEN Panic ELSE Ok(r.ret.v)

get_recent(max_len) ==
    LET ln == Min(max_len, len)
        start == Arith(USub(next_running, ln))
    IN  IF start.panic THEN Panic
        ELSE LET r == get_vec_and_index(start.ret, ln)
             IN  IF r.panic THEN Panic ELSE Ok(r.ret.v)

last_byte ==
    IF len > 0
    THEN LET idx == Arith(UAdd(next_running, mask))
         IN  IF idx.panic THEN Panic
             ELSE LET b == Index(buf, BitAnd(idx.ret, mask))
                  IN  IF b.panic THEN Panic ELSE Ok(Some(b.ret))
    ELSE Ok(None)

\* the slices handed to add: every length the cursor bound still allows
AddArgs == UNION {Vecs(n) : n \in 0..Min(MaxData, CursorBound - next_running)}

\* ---- the buffer under any sequence of calls -----------------------------
CallAdd == \E data \in AddArgs : Add(data) /\ UNCHANGED <<last, twin>>
CallClear == Clear /\ UNCHANGED <<last, twin>>
CallClearAt == \E x \in Usize : ClearAt(x) /\ UNCHANGED <<last, twin>>

Next == CallAdd \/ CallClear \/ CallClearAt

Spec == Init /\ [][Next]_vars

\* ---- the same, with the last call recorded ------------------------------
LogAdd ==
    \E data \in AddArgs :
        Add(data) /\ last' = [op |-> "add", n |-> VecLen(data)] /\ UNCHANGED twin
LogClear == Clear /\ last' = [op |-> "clear", n |-> 0] /\ UNCHANGED twin
LogClearAt ==
    \E x \in Usize :
        ClearAt(x) /\ last' = [op |-> "clear_at", n |-> 0] /\ UNCHANGED twin

NextCalls == LogAdd \/ LogClear \/ LogClearAt

SpecCalls == Init /\ [][NextCalls]_vars

\* ---- new's size computation on its own ----------------------------------
ProbeArgs ==
    (0..MaxProbe)
    \cup UNION {{2^k - 1, 2^k, 2^k + 1} : k \in 1..30}
    \cup {2^30 + 2^29, 2^30 + (2^30 - 1)}

Probe(n) ==
    /\ probe' = [n |-> n, size |-> power_two_size(n)]
    /\ UNCHANGED <<buf, len, mask, next_running, usize_max, overflow_checks, panicked, hist, last, twin>>

NextNew == \E n \in ProbeArgs : Probe(n)

SpecNew == Init /\ [][NextNew]_vars

\* ---- the documented example: "The Terminal History." on 8 bytes ---------
\* a tuple of bytes as a vector
Vec(t) == [i \in 0..(Len(t) - 1) |-> t[i + 1]]
\* &v[lo..hi]
Slice(v, lo, hi) == [j \in 0..(hi - lo - 1) |-> v[lo + j]]

\* "The Terminal History." and " and", in ASCII
ExampleText ==
    Vec(<<84, 104, 101, 32, 84, 101, 114, 109, 105, 110, 97, 108, 32,
          72, 105, 115, 116, 111, 114, 121, 46>>)
ExampleMore == Vec(<<32, 97, 110, 100>>)
ExampleStream ==
    [i \in 0..(VecLen(ExampleText) + VecLen(ExampleMore) - 1) |->
        IF i < VecLen(ExampleText) THEN ExampleText[i] ELSE ExampleMore[i - VecLen(ExampleText)]]

\* the buffer of the examples, new(6) or new(8), on a 16-bit target
InitExample ==
    \E min_buf_size \in {6, 8} :
        /\ buf = new(min_buf_size).buf
        /\ mask = new(min_buf_size).mask
        /\ len = new(min_buf_size).len
        /\ next_running = new(min_buf_size).next_running
        /\ usize_max = 2^16 - 1
        /\ overflow_checks \in BOOLEAN
        /\ panicked = FALSE
        /\ hist = <<>>
        /\ last = [op |-> "new", n |-> min_buf_size]
        /\ probe = [n |-> min_buf_size, size |-> power_two_size(min_buf_size)]
        /\ twin = NoTwin

\* the text is appended in one call or in several, each taking the next k bytes
ExampleAdd ==
    \E k \in 1..(VecLen(ExampleStream) - next_running) :
        /\ Add(Slice(ExampleStream, next_running, next_running + k))
        /\ last' = [op |-> "add", n |-> k]
        /\ UNCHANGED twin

NextExample == ExampleAdd

SpecExample == InitExample /\ [][NextExample]_vars

\* ---- a buffer cleared after k bytes, next to a fresh one ------------------
\* The buffer in buf, len, mask, next_running is the one the next call acts on;
\* twin holds the other one.  Both have the same capacity.  The first buffer
\* gets some bytes and a clear(); from then on every add goes to both.
InitShift ==
    \E min_buf_size \in 0..MaxMinBuf :
        /\ buf = new(min_buf_size).buf
        /\ mask = new(min_buf_size).mask
        /\ len = new(min_buf_size).len
        /\ next_running = new(min_buf_size).next_running
        /\ usize_max = UsizeMax
        /\ overflow_checks \in BOOLEAN
        /\ panicked = FALSE
        /\ hist = <<>>
        /\ last = [op |-> "new", n |-> min_buf_size]
        /\ probe = [n |-> min_buf_size, size |-> power_two_size(min_buf_size)]
        /\ twin = [side |-> "shifted", cleared |-> FALSE, pending |-> None,
                   buf |-> new(min_buf_size).buf, len |-> new(min_buf_size).len,
                   next_running |-> new(min_buf_size).next_running, hist |-> <<>>]

\* the first buffer is filled before its clear()
ShiftPrefix ==
    /\ twin.side = "shifted"
    /\ ~twin.cleared
    /\ \E data \in AddArgs : Add(data)
    /\ UNCHANGED <<last, twin>>

\* the first buffer is cleared
ShiftClear ==
    /\ twin.side = "shifted"
    /\ ~twin.cleared
    /\ Clear
    /\ twin' = [twin EXCEPT !.cleared = TRUE]
    /\ UNCHANGED last

\* an add to the cleared buffer; the fresh one is to receive the same bytes
ShiftAdd ==
    /\ twin.side = "shifted"
    /\ twin.cleared
    /\ twin.pending = None
    /\ \E data \in AddArgs : Add(data) /\ twin' = [twin EXCEPT !.pending = Some(data)]
    /\ UNCHANGED last

\* the same add to the fresh buffer
FreshAdd ==
    /\ twin.side = "fresh"
    /\ twin.pending # None
    /\ Add(twin.pending.val)
    /\ twin' = [twin EXCEPT !.pending = None]
    /\ UNCHANGED last

\* turn to the other buffer
Swap ==
    /\ ~panicked
    /\ twin.cleared
    /\ twin.side = "fresh" => twin.pending = None
    /\ buf' = twin.buf
    /\ len' = twin.len
    /\ next_running' = twin.next_running
    /\ hist' = twin.hist
    /\ twin' = [twin EXCEPT !.side = IF twin.side = "shifted" THEN "fresh" ELSE "shifted",
                            !.buf = buf, !.len = len,
                            !.next_running = next_running, !.hist = hist]
    /\ UNCHANGED <<mask, usize_max, overflow_checks, panicked, last, probe>>

NextShift == ShiftPrefix \/ ShiftClear \/ ShiftAdd \/ FreshAdd \/ Swap

SpecShift == InitShift /\ [][NextShift]_vars

\* ======================= properties ======================================
\* the bytes appended at the logical offsets lo..hi-1, as a vector
HistVec(lo, hi) == [j \in 0..(hi - lo - 1) |-> hist[lo + j]]

\* C1: for every logical offset i, get(i) is Some(the i-th byte ever appended)
\* exactly when get_index() <= i < next_running, and None for every i below
\* get_index() and every i at or past next_running; equivalently buf[i & mask]
\* holds the i-th appended byte for every retained i.
C1_GetReturnsAppended ==
    \A i \in Usize :
        IF next_running - len <= i /\ i < next_running
        THEN /\ i \in DOMAIN hist
             /\ get(i) = Ok(Some(hist[i]))
             /\ buf[BitAnd(i, mask)] = hist[i]
        ELSE get(i) = Ok(None)

\* a buffer that has evicted bytes, has then been shortened, and still holds some
C1_Witness ==
    /\ next_running > VecLen(buf)
    /\ 0 < len /\ len < VecLen(buf)
    /\ get(next_running - len - 1) = Ok(None)
    /\ get(next_running - len) = Ok(Some(hist[next_running - len]))
    /\ BitAnd(next_running - len, mask) > BitAnd(next_running - 1, mask)

\* C2: 0 <= len <= capacity and len <= next_running in every reachable state,
\* so get_index() = next_running - len does not underflow and
\* get_index() + get_len() = next_running.
C2_LenWithinBounds ==
    /\ 0 <= len /\ len <= VecLen(buf)
    /\ len <= next_running
    /\ get_index = Ok(next_running - len)
    /\ get_len = Ok(len)
    /\ get_index.ret + get_len.ret = next_running

\* the retained length has saturated at the capacity after more appends than fit
C2_Witness ==
    /\ len = VecLen(buf)
    /\ next_running > VecLen(buf)
    /\ get_index = Ok(next_running - VecLen(buf))
\* the clipped window of a range read, over unbounded integers
WinLo(s) == Max(s, next_running - len)
WinHi(s, m) == Min(s + m, next_running)
Window(s, m) == IF WinHi(s, m) > WinLo(s) THEN HistVec(WinLo(s), WinHi(s, m)) ELSE Zeros(0)

\* C3: for every start s and max length m, get_vec_and_index(s, m) and
\* get_vec(s, m) return exactly the appended bytes at the logical offsets
\* [max(s, get_index()), min(s + m, next_running)), in order.  (A call that
\* panics returns nothing and is not counted against the claim here.)
C3_RangeReadIsClippedWindow ==
    \A s \in Usize : \A m \in Usize :
        LET r == get_vec_and_index(s, m)
        IN  ~r.panic =>
                /\ r.ret.v = Window(s, m)
                /\ get_vec(s, m) = Ok(Window(s, m))
                /\ VecLen(r.ret.v) <= m

\* what does hold of the code: the same, for the requests whose end s + m is
\* representable
C3_WindowWhenEndRepresentable ==
    \A s \in Usize : \A m \in Usize :
        s + m <= usize_max =>
            /\ get_vec_and_index(s, m).panic = FALSE
            /\ get_vec_and_index(s, m).ret.v = Window(s, m)
            /\ get_vec(s, m) = Ok(Window(s, m))

\* C4: whenever get_vec_and_index(s, m) returns a non-empty vector, the index it
\* returns is max(s, get_index()), the logical offset of the first byte returned.
C4_NonEmptyStartIsTrueOffset ==
    \A s \in Usize : \A m \in Usize :
        LET r == get_vec_and_index(s, m)
        IN  (~r.panic /\ VecLen(r.ret.v) > 0) =>
                /\ r.ret.idx = Max(s, next_running - len)
                /\ r.ret.idx \in DOMAIN hist
                /\ r.ret.v[0] = hist[r.ret.idx]
                /\ (s >= next_running - len => r.ret.idx = s)

\* a request from offset 0 whose low end is gone: the result starts at get_index()
C4_Witness ==
    /\ next_running - len > 0
    /\ len > 1
    /\ get_vec_and_index(0, usize_max) = Ok([v |-> HistVec(next_running - len, next_running),
                                              idx |-> next_running - len])
    /\ get_vec_and_index(next_running - 1, 1) = Ok([v |-> HistVec(next_running - 1, next_running),
                                                    idx |-> next_running - 1])

\* C5: after add(d) with len(d) <= capacity, get_vec(c, len(d)) is d, where c is
\* next_running before the call (hist holds d at the offsets c .. c + len(d) - 1).
C5_WriteThenRead ==
    (last.op = "add" /\ last.n >= 1 /\ last.n <= VecLen(buf)) =>
        get_vec(next_running - last.n, last.n) = Ok(HistVec(next_running - last.n, next_running))

\* an add whose destination wrapped: some bytes went to the end of buf, some to
\* its front
C5_Witness ==
    /\ last.op = "add" /\ last.n >= 2 /\ last.n <= VecLen(buf)
    /\ BitAnd(next_running, mask) > 0
    /\ BitAnd(next_running - last.n, mask) > BitAnd(next_running, mask)
    /\ \E j \in 0..(last.n - 1) : hist[next_running - last.n + j] # 0
    /\ get_vec(next_running - last.n, last.n) = Ok(HistVec(next_running - last.n, next_running))

\* C6: no call panics, whatever the data length and the read arguments.
C6_NoPanic ==
    /\ ~panicked
    /\ \A i \in Usize : ~get(i).panic
    /\ ~get_index.panic
    /\ ~get_last_index.panic
    /\ ~get_len.panic
    /\ ~last_byte.panic
    /\ \A m \in Usize : ~get_recent(m).panic
    /\ \A s \in Usize : \A m \in Usize :
           ~get_vec_and_index(s, m).panic /\ ~get_vec(s, m).panic

\* what does hold of the code: add never panics, no slice range is out of bounds,
\* no copy has slices of different lengths and no subtraction underflows; the
\* panics left are the overflowing additions start_index + max_len and
\* next_running + mask
C6_OnlyAdditionsPanic ==
    /\ ~panicked
    /\ \A i \in Usize : ~get(i).panic
    /\ ~get_index.panic
    /\ ~get_last_index.panic
    /\ \A m \in Usize : ~get_recent(m).panic
    /\ last_byte.panic => (overflow_checks /\ next_running + mask > usize_max)
    /\ \A s \in Usize : \A m \in Usize :
           get_vec_and_index(s, m).panic => (overflow_checks /\ s + m > usize_max)

\* C7: new(min_buf_size) sizes the buffer at the smallest power of two that is
\* >= 2 and >= min_buf_size when min_buf_size <= 2^23, and at exactly 2^23 above
\* that; the new buffer has next_running 0, len 0 and all-zero storage.
SizeIsNormalized(n, size) ==
    /\ n <= 2^23 =>
           /\ \E k \in 1..23 : size = 2^k
           /\ size >= n
           /\ \A k \in 1..23 : 2^k >= n => size <= 2^k
    /\ n > 2^23 => size = 2^23

C7_NewNormalizesCapacity ==
    /\ SizeIsNormalized(probe.n, probe.size)
    /\ last.op = "new" =>
           /\ SizeIsNormalized(last.n, VecLen(buf))
           /\ mask = VecLen(buf) - 1
           /\ next_running = 0
           /\ len = 0
           /\ \A i \in DOMAIN buf : buf[i] = 0

\* a request above the ceiling, capped; next to a fresh buffer of capacity 4 for
\* a request of 3
C7_Witness ==
    /\ probe.n > 2^23 /\ probe.size = 2^23
    /\ last.op = "new" /\ last.n = 3 /\ VecLen(buf) = 4

\* C8: get_recent(max_len) returns the min(max_len, len) most recently appended
\* bytes, and its result is the vector of
\* get_vec_and_index(next_running - min(max_len, len), max_len).  (Calls that
\* panic are not counted against the claim here.)
C8_RecentEqualsRangeRead ==
    \A m \in Usize :
        LET k == Min(m, len)
            a == get_recent(m)
            b == get_vec_and_index(next_running - k, m)
        IN  (~a.panic /\ ~b.panic) =>
                /\ a.ret = HistVec(next_running - k, next_running)
                /\ a.ret = b.ret.v

\* what does hold of the code: get_recent never panics and returns the
\* min(max_len, len) most recent bytes
C8_RecentIsMostRecent ==
    \A m \in Usize :
        get_recent(m) = Ok(HistVec(next_running - Min(m, len), next_running))

\* C9: last_byte() returns None when len = 0 and otherwise Some(the byte at
\* logical offset next_running - 1); it agrees with get(next_running - 1).
C9_LastByte ==
    /\ len = 0 => last_byte = Ok(None)
    /\ len > 0 =>
           /\ last_byte = Ok(Some(hist[next_running - 1]))
           /\ last_byte = get(next_running - 1)

\* what does hold of the code: the same whenever last_byte does not panic, and it
\* panics only on next_running + mask overflowing in a build that checks overflow
C9_LastByteUnlessOverflow ==
    /\ last_byte.panic => (overflow_checks /\ len > 0 /\ next_running + mask > usize_max)
    /\ ~last_byte.panic =>
           /\ len = 0 => last_byte = Ok(None)
           /\ len > 0 => last_byte = Ok(Some(hist[next_running - 1]))

\* C10: get_last_index() is next_running - 1 when len > 0 and get_index() when
\* len = 0; so get_index() <= get_last_index() always, and
\* get_last_index() - get_index() + 1 = len whenever len > 0.
C10_LastIndex ==
    /\ len > 0 => get_last_index = Ok(next_running - 1)
    /\ len = 0 => get_last_index = get_index /\ get_last_index = Ok(next_running)
    /\ get_index.ret <= get_last_index.ret
    /\ len > 0 => get_last_index.ret - get_index.ret + 1 = len

\* an emptied buffer that has had bytes appended: both indices are the cursor
C10_Witness ==
    /\ len = 0
    /\ next_running > 0
    /\ get_last_index = Ok(next_running)
    /\ get_index = Ok(next_running)
\* after clear nothing can be read: both indices are the cursor, get is None
\* everywhere and every range read returns the empty vector
NothingReadable ==
    /\ get_len = Ok(0)
    /\ get_index = Ok(next_running)
    /\ get_last_index = Ok(next_running)
    /\ \A i \in Usize : get(i) = Ok(None)
    /\ \A m \in Usize : get_recent(m) = Ok(Zeros(0))
    /\ \A s \in Usize : \A m \in Usize :
           /\ get_vec(s, m) = Ok(Zeros(0))
           /\ get_vec_and_index(s, m).panic = FALSE
           /\ get_vec_and_index(s, m).ret.v = Zeros(0)

\* C11: clear() sets len to 0 and leaves next_running and every byte of buf as
\* they were; afterwards get_index() and get_last_index() are next_running,
\* get(i) is None for every i and every range read is empty; a second clear()
\* changes nothing.
C11_ClearOnlyResetsLen ==
    [][last'.op = "clear" =>
          /\ len' = 0
          /\ next_running' = next_running
          /\ buf' = buf
          /\ mask' = mask
          /\ NothingReadable'
          /\ (last.op = "clear" => UNCHANGED <<buf, len, mask, next_running>>)]_vars

\* what does hold of the code: the frame of clear, its idempotence, and that no
\* read returns a byte afterwards; the range reads whose start_index + max_len
\* overflows panic in a build that checks overflow
NothingReturned ==
    /\ get_len = Ok(0)
    /\ get_index = Ok(next_running)
    /\ get_last_index = Ok(next_running)
    /\ \A i \in Usize : get(i) = Ok(None)
    /\ \A m \in Usize : get_recent(m) = Ok(Zeros(0))
    /\ \A s \in Usize : \A m \in Usize :
           IF overflow_checks /\ s + m > usize_max
           THEN get_vec_and_index(s, m).panic
           ELSE /\ get_vec_and_index(s, m) = Ok([v |-> Zeros(0), idx |-> 0])
                /\ get_vec(s, m) = Ok(Zeros(0))

C11_ClearFrame ==
    [][last'.op = "clear" =>
          /\ len' = 0
          /\ next_running' = next_running
          /\ buf' = buf
          /\ mask' = mask
          /\ NothingReturned'
          /\ (last.op = "clear" => UNCHANGED <<buf, len, mask, next_running>>)]_vars
\* C12: clear_at(x) sets len to min(len, next_running - x), taking
\* next_running - x as 0 when x >= next_running: len never grows, nothing changes
\* when x <= get_index(), get_index() is x afterwards when
\* get_index() <= x <= next_running, the buffer is empty when x >= next_running;
\* next_running and buf are unchanged.
C12_ClearAtShrinks ==
    [][/\ last'.op = "clear_at" =>
              /\ next_running' = next_running
              /\ buf' = buf
              /\ mask' = mask
              /\ len' <= len
              /\ \A x \in Usize :
                     ClearAt(x) =>
                         /\ len' = Min(len, IF x >= next_running THEN 0 ELSE next_running - x)
                         /\ (x <= next_running - len => len' = len)
                         /\ (next_running - len <= x /\ x <= next_running => get_index' = Ok(x))
                         /\ (x >= next_running => len' = 0 /\ get_len' = Ok(0))]_vars

\* a full buffer that clear_at has shortened without emptying it
C12_Witness ==
    /\ last.op = "clear_at"
    /\ next_running > VecLen(buf)
    /\ 0 < len /\ len < VecLen(buf)
    /\ get_index = Ok(next_running - len)
\* the state after the single call add("The Terminal History.") on a fresh buffer
AfterTheText ==
    /\ last.op = "add"
    /\ last.n = VecLen(ExampleText)
    /\ next_running = VecLen(ExampleText)

\* C13 as stated: after that call get_index() == 14, last_byte() == '.',
\* get_vec(14, 8) == "History.", get(14) == 'H' and get(13) is absent.
C13_ExampleAsStated ==
    AfterTheText =>
        /\ get_index = Ok(14)
        /\ last_byte = Ok(Some(46))
        /\ get_vec(14, 8) = Ok(Vec(<<72, 105, 115, 116, 111, 114, 121, 46>>))
        /\ get(14) = Ok(Some(72))
        /\ get(13) = Ok(None)

\* C13 amended: the text has 21 bytes, so after that call get_index() == 13,
\* last_byte() == '.', get_vec(13, 8) == "History.", get(13) == 'H' and get(12)
\* is absent.
C13_ExampleAt13 ==
    AfterTheText =>
        /\ get_index = Ok(13)
        /\ last_byte = Ok(Some(46))
        /\ get_vec(13, 8) = Ok(Vec(<<72, 105, 115, 116, 111, 114, 121, 46>>))
        /\ get(13) = Ok(Some(72))
        /\ get(12) = Ok(None)

\* the text has been appended in one call and the buffer is full
C13_Witness ==
    /\ AfterTheText
    /\ VecLen(buf) = 8
    /\ len = 8
    /\ get_last_index = Ok(20)
\* C14 as stated: every range read that returns, empty results included,
\* returns at most m bytes and a starting offset >= s that exceeds s only when
\* s < get_index().
C14_OffsetNeverBelowRequest ==
    \A s \in Usize : \A m \in Usize :
        \E r \in {get_vec_and_index(s, m)} :
            ~r.panic =>
                /\ VecLen(r.ret.v) <= m
                /\ r.ret.idx >= s
                /\ (r.ret.idx > s => s < next_running - len)

\* C14 amended: every range read that returns, returns at most m bytes; a
\* non-empty result starts at an offset >= s that exceeds s only when
\* s < get_index(); an empty result carries offset 0, whatever s is.
C14_LengthAndOffset ==
    \A s \in Usize : \A m \in Usize :
        \E r \in {get_vec_and_index(s, m)} :
            ~r.panic =>
                /\ VecLen(r.ret.v) <= m
                /\ IF VecLen(r.ret.v) = 0
                   THEN r.ret.idx = 0
                   ELSE /\ r.ret.idx >= s
                        /\ (r.ret.idx > s => s < next_running - len)

\* a state with a read clipped at the low end, an unclipped read, and an
\* empty read from a positive offset
C14_Witness ==
    /\ next_running > VecLen(buf)
    /\ len > 1
    /\ \E s \in Usize : \E m \in Usize :
           /\ s < next_running - len
           /\ get_vec_and_index(s, m).panic = FALSE
           /\ get_vec_and_index(s, m).ret.idx > s
           /\ VecLen(get_vec_and_index(s, m).ret.v) > 0
    /\ \E s \in Usize : \E m \in Usize :
           /\ s > next_running - len
           /\ get_vec_and_index(s, m).panic = FALSE
           /\ get_vec_and_index(s, m).ret.idx = s
           /\ VecLen(get_vec_and_index(s, m).ret.v) = m
    /\ \E s \in Usize :
           /\ s > 0
           /\ get_vec_and_index(s, 0) = Ok([v |-> Zeros(0), idx |-> 0])
\* the clipped window [max(s, get_index()), min(s + m, cursor)) has no offset
EmptyWindow(s, m) == WinHi(s, m) <= WinLo(s)

\* C15: whenever the clipped window of get_vec_and_index(s, m) is empty, the
\* call returns the empty sequence paired with offset 0.
C15_EmptyWindowReturnsZero ==
    \A s \in Usize : \A m \in Usize :
        EmptyWindow(s, m) => get_vec_and_index(s, m) = Ok([v |-> Zeros(0), idx |-> 0])

\* what the code does keep: an empty window is answered by (empty, 0)
\* whenever the call returns, i.e. unless s + m overflows under overflow checks
C15_EmptyWindowUnlessOverflow ==
    \A s \in Usize : \A m \in Usize :
        EmptyWindow(s, m) =>
            IF overflow_checks /\ s + m > usize_max
            THEN get_vec_and_index(s, m).panic
            ELSE get_vec_and_index(s, m) = Ok([v |-> Zeros(0), idx |-> 0])
\* C16: add(d) with n = len(d) advances the write cursor by exactly n and sets
\* the retained length to min(len + n, capacity); an empty add changes neither
\* the cursor, nor the length, nor any storage byte; clear and clear_at leave
\* the cursor alone; so the cursor never decreases.
C16_CursorAndLength ==
    [][/\ last'.op = "add" =>
            /\ next_running' = next_running + last'.n
            /\ len' = Min(len + last'.n, VecLen(buf))
            /\ get_len' = Ok(Min(len + last'.n, VecLen(buf)))
            /\ (last'.n = 0 => UNCHANGED <<buf, len, next_running>>)
       /\ last'.op \in {"clear", "clear_at"} => next_running' = next_running
       /\ next_running' >= next_running]_vars

\* an add that ran into the capacity limit of the retained length
C16_Witness ==
    /\ last.op = "add"
    /\ last.n > 1
    /\ last.n < VecLen(buf)
    /\ next_running > VecLen(buf)
    /\ len = VecLen(buf)
\* C17: after add(d) with len(d) >= capacity, in any state, the buffer holds
\* exactly the last capacity bytes of d: get_len() == capacity, get_index() ==
\* write cursor - capacity, and get_vec(0, M) returns those bytes in order for
\* every M >= write cursor.  The bytes of d sit at the offsets
\* cursor - len(d) .. cursor - 1 of hist, its last capacity bytes at the offsets
\* cursor - capacity .. cursor - 1.
C17_LongAddKeepsTail ==
    last.op = "add" /\ last.n >= VecLen(buf) =>
        /\ get_len = Ok(VecLen(buf))
        /\ get_index = Ok(next_running - VecLen(buf))
        /\ \A M \in Usize :
               M >= next_running =>
                   get_vec(0, M) = Ok(HistVec(next_running - VecLen(buf), next_running))

\* a long add that started on a cursor not aligned with the capacity
C17_Witness ==
    /\ last.op = "add"
    /\ last.n > VecLen(buf)
    /\ VecLen(buf) > 2
    /\ BitAnd(next_running - last.n, mask) # 0
    /\ len = VecLen(buf)
    /\ get_vec(0, next_running) = Ok(HistVec(next_running - VecLen(buf), next_running))
    /\ \E i \in DOMAIN buf : \E j \in DOMAIN buf : buf[i] # buf[j]
\* C18: along every sequence of add, clear and clear_at, get_index() never
\* decreases, and an offset below the write cursor that is unreadable stays
\* unreadable: a later add does not re-expose bytes hidden by clear or clear_at.
C18_HiddenStaysHidden ==
    [][/\ get_index.panic = FALSE
       /\ get_index'.panic = FALSE
       /\ get_index'.ret >= get_index.ret
       /\ \A i \in Usize :
              i < next_running /\ get(i) = Ok(None) => get(i)' = Ok(None)]_vars

\* an add after a clear or clear_at: the storage still holds older bytes than
\* the ones that can be read
C18_Witness ==
    /\ last.op = "add"
    /\ 0 < len
    /\ len < VecLen(buf)
    /\ next_running > VecLen(buf)
    /\ get(next_running - len - 1) = Ok(None)
    /\ get(next_running - len) = Ok(Some(hist[next_running - len]))
    /\ Index(buf, BitAnd(next_running - len - 1, mask)) = Ok(hist[next_running - len - 1])
    /\ hist[next_running - len - 1] # 0
\* C19: a buffer cleared after k appended bytes behaves, under the same later
\* adds, like a fresh buffer of the same capacity with every offset shifted by
\* k: get_len() and last_byte() are equal, get_index() and get_last_index() are
\* larger by k, and get_vec(s + k, m) equals the fresh buffer's get_vec(s, m)
\* for all s, m.  Stated on the step that turns from the cleared buffer to the
\* fresh one when both have received the same adds.
C19_ShiftEquivalence ==
    [][twin.side = "shifted" /\ twin'.side = "fresh" /\ twin.pending = None =>
            \E k \in {next_running - next_running'} :
                /\ get_len = get_len'
                /\ last_byte = last_byte'
                /\ get_index'.panic = FALSE
                /\ get_index = Ok(get_index'.ret + k)
                /\ get_last_index'.panic = FALSE
                /\ get_last_index = Ok(get_last_index'.ret + k)
                /\ \A s \in Usize : \A m \in Usize :
                       s + k <= usize_max => get_vec(s + k, m) = get_vec(s, m)']_vars

\* what the code does keep: the equivalence for the counters, for last_byte
\* when it returns on both buffers, and for the range reads whose shifted end
\* s + k + m is representable
C19_ShiftEquivalenceUnlessOverflow ==
    [][twin.side = "shifted" /\ twin'.side = "fresh" /\ twin.pending = None =>
            \E k \in {next_running - next_running'} :
                /\ get_len = get_len'
                /\ (~last_byte.panic /\ ~last_byte'.panic => last_byte = last_byte')
                /\ get_index'.panic = FALSE
                /\ get_index = Ok(get_index'.ret + k)
                /\ get_last_index'.panic = FALSE
                /\ get_last_index = Ok(get_last_index'.ret + k)
                /\ \A s \in Usize : \A m \in Usize :
                       s + k + m <= usize_max =>
                           /\ get_vec(s + k, m).panic = FALSE
                           /\ get_vec(s + k, m) = get_vec(s, m)']_vars
\* C20: on usize of a fixed width the only addition that can overflow is the
\* one of the write cursor in add: for every representable s and m,
\* get_vec_and_index and get_vec compute s + m without overflow and return the
\* clipped window, and no other read overflows either.
C20_OnlyCursorOverflows ==
    /\ \A s \in Usize : \A m \in Usize :
           /\ ~gvi_out(s, m).ovf
           /\ get_vec_and_index(s, m).panic = FALSE
           /\ get_vec_and_index(s, m).ret.v = Window(s, m)
           /\ get_vec(s, m) = Ok(Window(s, m))
    /\ len > 0 => ~UAdd(next_running, mask).ovf
    /\ ~USub(next_running, len).ovf

\* what does hold of the code: the subtractions of the reads never underflow,
\* and the additions start_index + max_len and next_running + mask overflow
\* exactly when the sum exceeds usize::MAX, which the write cursor need not
C20_SubtractionsAreSafe ==
    /\ ~USub(next_running, len).ovf
    /\ \A m \in Usize : ~USub(next_running, Min(m, len)).ovf
    /\ \A s \in Usize : \A m \in Usize : gvi_out(s, m).ovf <=> s + m > usize_max
    /\ next_running <= usize_max
\* C21: storage bytes are changed only by add, and only in its destination
\* window: with write cursor c before the call and data d of n < capacity
\* bytes, add(d) sets slot (c + j) & mask to d[j] for every j in 0..n-1 (d[j] is
\* the byte hist records at offset c + j) and leaves the other capacity - n
\* slots as they were, still zero if never written; clear and clear_at change
\* no storage byte.
C21_AddWritesOnlyItsWindow ==
    [][/\ last'.op = "add" /\ last'.n < VecLen(buf) =>
              /\ ~panicked'
              /\ \A j \in 0..(last'.n - 1) :
                     buf'[BitAnd(next_running + j, mask)] = hist'[next_running + j]
              /\ \A i \in DOMAIN buf :
                     (\A j \in 0..(last'.n - 1) : BitAnd(next_running + j, mask) # i)
                         => buf'[i] = buf[i]
              /\ Cardinality({i \in DOMAIN buf : buf'[i] # buf[i]}) <= last'.n
       /\ last'.op \in {"clear", "clear_at"} => buf' = buf
       /\ \A i \in DOMAIN buf : i >= next_running' => buf'[i] = 0
       /\ DOMAIN buf' = DOMAIN buf]_vars

\* an add shorter than the capacity that wrapped around the end of the storage
\* and left a slot written earlier as it was
C21_Witness ==
    /\ last.op = "add"
    /\ 1 < last.n
    /\ last.n < VecLen(buf)
    /\ next_running > VecLen(buf)
    /\ BitAnd(next_running, mask) # 0
    /\ BitAnd(next_running, mask) < BitAnd(next_running - last.n, mask)
    /\ \E i \in DOMAIN buf :
           /\ \A j \in 1..last.n : BitAnd(next_running - j, mask) # i
           /\ buf[i] # 0
    /\ \E j \in 1..last.n : buf[BitAnd(next_running - j, mask)] = 0
====
